---- MODULE Spec2Model ----
(***************************************************************************)
(* Model of the answer-scoring pipeline of src/app.py: the rubric          *)
(* evaluator evaluate_answer_with_ai_real, the external analyzer it calls, *)
(* and the submission handler submit_comprehensive with its persistence.   *)
(*                                                                         *)
(* Scores are kept exactly, in sixtieths of a point: 1.5 points = 90,      *)
(* 0.75 points = 45, 3.0 points = 180.  With nine validated sub-scores of  *)
(* sum s the argument score (s / 9 / 5) * 1.5 is s / 30 points = 2 * s.    *)
(***************************************************************************)
EXTENDS Integers, Sequences, FiniteSets, TLC

VARIABLES CLAUDE_API_KEY, now, session, req, db, evalCur, evalKept

vars == <<CLAUDE_API_KEY, now, session, req, db, evalCur, evalKept>>

-----------------------------------------------------------------------------
(* Bounds of the model *)

\* last tick of the wall clock
MaxTime == 2

\* raw integer sub-scores sent by the analyzer range this far beyond either
\* end of the 1-5 scale
RawSlack == 1

\* questions of one submission whose form entry or analyzer outcome may
\* differ from the rest of that submission
MaxDeviations == 1

\* accesses of student_results counted per token
MaxAccess == 2

-----------------------------------------------------------------------------
(* Scores *)

\* n/d points, in sixtieths of a point
Pts(n, d) == (60 * n) \div d

\* scale of the per-question score logged as "/3.0" (1.5 truth + 1.5 argument)
MaxPerQuestion == Pts(3, 1)

Min2(a, b) == IF a < b THEN a ELSE b

Max2(a, b) == IF a > b THEN a ELSE b

RECURSIVE SumSeq(_)
SumSeq(s) == IF s = <<>> THEN 0 ELSE Head(s) + SumSeq(Tail(s))

-----------------------------------------------------------------------------
(* The nine criteria, in the order the validation loop visits them *)

CriterioList ==
    << "opinion_fundada", "valores_eticos", "lenguaje_terminologia",
       "citas_precision", "estructura_coherencia", "profundidad_fundamentacion",
       "capacidad_critica", "presentacion_estilo", "innovacion_creatividad" >>

Criterios == { CriterioList[k] : k \in 1..Len(CriterioList) }

-----------------------------------------------------------------------------
(* JSON values the analyzer may send *)

\* a sub-score as found in the parsed JSON: an integer, a float (v in tenths),
\* a boolean (v is 0 or 1), a string, null, absent, NaN or Infinity
RawInt(n) == [t |-> "int", v |-> n]

RawFloat(tenths) == [t |-> "float", v |-> tenths]

RawBool(b) == [t |-> "bool", v |-> IF b THEN 1 ELSE 0]

RawOther(t) == [t |-> t, v |-> 0]

RawScores ==
    { RawInt(n) : n \in (1 - RawSlack)..(5 + RawSlack) }
    \cup { RawFloat(27), RawFloat(59), RawFloat(-5), RawBool(TRUE) }
    \cup { RawOther("str"), RawOther("null"), RawOther("missing"),
           RawOther("nan"), RawOther("inf") }

\* a feedback field as found in the parsed JSON
JStr(s) == [t |-> "str", v |-> s]

JList(s) == [t |-> "list", v |-> s]

JMissing == [t |-> "missing", v |-> ""]

JNull == [t |-> "null", v |-> ""]

\* usage.output_tokens as found in the response
TokInt(n) == [t |-> "int", v |-> n]

TokList == [t |-> "list", v |-> 0]

-----------------------------------------------------------------------------
(* Outcomes of requests.post(...) *)

NoCriterios == [c \in Criterios |-> RawOther("missing")]

Outcome(kind, status, shape) ==
    [kind |-> kind, status |-> status, shape |-> shape,
     tokens |-> TokInt(0), criterios_is_dict |-> TRUE, criterios |-> NoCriterios,
     feedback_general |-> JMissing, feedback_fortalezas |-> JMissing,
     feedback_mejoras |-> JMissing]

\* requests.exceptions.Timeout
Timeout == Outcome("timeout", 0, "none")

\* any other exception of requests.post (connection refused, DNS, ...)
NetError == Outcome("neterror", 0, "none")

\* a response with a status code other than 200
HttpError(status) == Outcome("http", status, "none")

\* a 200 response whose body does not yield a JSON object in content[0].text:
\*   body_not_json    response.json() raises
\*   no_content_text  response_data['content'][0]['text'] raises
\*   text_not_str     the text is not a string
\*   text_no_json     the text holds no {...}
\*   text_bad_json    json.loads rejects the text
Malformed(shape, tokens) == [Outcome("http", 200, shape) EXCEPT !.tokens = tokens]

\* a 200 response whose text parses to a JSON object
Parsed(isdict, crit, fg, ff, fm, tokens) ==
    [kind |-> "http", status |-> 200, shape |-> "json_object",
     tokens |-> tokens, criterios_is_dict |-> isdict, criterios |-> crit,
     feedback_general |-> fg, feedback_fortalezas |-> ff,
     feedback_mejoras |-> fm]

\* sub-score maps: one criterion takes any raw value, the others a common
\* integer
CriteriosMaps ==
    { [c \in Criterios |-> IF c = "citas_precision" THEN a ELSE RawInt(b)] :
        a \in RawScores, b \in {1, 4, 5} }

FeedbackTriples ==
    { <<JStr("general"), JStr("fortalezas"), JStr("mejoras")>>,
      <<JMissing, JMissing, JMissing>>,
      <<JStr("general"), JList("fortalezas"), JStr("mejoras")>>,
      <<JNull, JStr("fortalezas"), JStr("mejoras")>>,
      <<JStr("general"), JStr("fortalezas"), JList("mejoras")>> }

MalformedShapes ==
    { "body_not_json", "no_content_text", "text_not_str", "text_no_json",
      "text_bad_json" }

Outcomes ==
    { Timeout, NetError, HttpError(500), HttpError(429) }
    \cup { Malformed(s, k) : s \in MalformedShapes, k \in {TokInt(7), TokList} }
    \cup { Parsed(TRUE, m, f[1], f[2], f[3], TokInt(7)) :
             m \in CriteriosMaps, f \in FeedbackTriples }
    \cup { Parsed(FALSE, NoCriterios, JStr("general"), JStr("fortalezas"),
                  JStr("mejoras"), TokInt(7)) }

\* time.time() differences, in milliseconds, seen by one call
ElapsedMs == {0, 130}

-----------------------------------------------------------------------------
(* evaluate_answer_with_ai_real *)

\* truth component: 1.5 points iff the submitted boolean is the expected one
TruthScoreAlwaysOnTrue(user_bool, correct_bool) ==
    IF user_bool THEN Pts(3, 2) ELSE 0

TruthScore(user_bool, correct_bool) ==
    IF user_bool = correct_bool THEN Pts(3, 2) ELSE 0

\* fallback argument component, 0.75 points
DefaultArgumentScoreFull == Pts(3, 2)

DefaultArgumentScore == Pts(3, 4)

default_result_marked(truth_score) ==
    [criterios |-> [c \in Criterios |-> 3],
     feedback_general |->
        JStr("Evaluacion sin IA disponible. Puntuacion por defecto asignada."),
     feedback_fortalezas |-> JStr("No se pudo analizar con IA."),
     feedback_mejoras |->
        JStr("Configure Claude API key para evaluacion detallada."),
     truth_score |-> truth_score,
     argument_score |-> DefaultArgumentScore,
     final_score |-> truth_score + DefaultArgumentScore,
     ai_tokens_used |-> TokInt(0),
     ai_processing_time_ms |-> 0,
     ai_model_used |-> "claude-3-sonnet-20240229",
     ai_raw_response |-> "{\"error\": \"No API key\"}"]

default_result(truth_score) ==
    [criterios |-> [c \in Criterios |-> 3],
     feedback_general |->
        JStr("Evaluacion sin IA disponible. Puntuacion por defecto asignada."),
     feedback_fortalezas |-> JStr("No se pudo analizar con IA."),
     feedback_mejoras |->
        JStr("Configure Claude API key para evaluacion detallada."),
     truth_score |-> truth_score,
     argument_score |-> DefaultArgumentScore,
     final_score |-> truth_score + DefaultArgumentScore,
     ai_tokens_used |-> TokInt(0),
     ai_processing_time_ms |-> 0,
     ai_model_used |-> "none",
     ai_raw_response |-> "{\"error\": \"No API key\"}"]

\* int(score) of a numeric JSON value: floats truncate toward zero
IntOf(raw) ==
    IF raw.t = "float"
    THEN (IF raw.v >= 0 THEN raw.v \div 10 ELSE -((-raw.v) \div 10))
    ELSE raw.v

\* isinstance(score, (int, float)); bool is a subclass of int
IsNumberExceptBool(raw) == raw.t \in {"int", "float", "nan", "inf"}

IsNumber(raw) == raw.t \in {"int", "float", "bool", "nan", "inf"}

\* max(1, min(5, int(score))) if isinstance(score, (int, float)) else 3
ValidateFloorOnly(raw) == IF IsNumber(raw) THEN Max2(1, IntOf(raw)) ELSE 3

ValidateNoClamp(raw) == IF IsNumber(raw) THEN IntOf(raw) ELSE 3

Validate(raw) ==
    IF IsNumber(raw) THEN Max2(1, Min2(5, IntOf(raw))) ELSE 3

NoExc == [cls |-> "none", inner |-> FALSE, msg |-> ""]

Exc(cls, inner, msg) == [cls |-> cls, inner |-> inner, msg |-> msg]

\* int(NaN) raises ValueError, int(Infinity) raises OverflowError; the loop
\* stops at the first criterion that raises
RECURSIVE FirstRaise(_, _)
FirstRaise(criterios, k) ==
    IF k > Len(CriterioList) THEN NoExc
    ELSE LET raw == criterios[CriterioList[k]] IN
         IF raw.t = "nan"
         THEN Exc("ValueError", TRUE, "cannot convert float NaN to integer")
         ELSE IF raw.t = "inf"
         THEN Exc("OverflowError", TRUE,
                  "cannot convert float infinity to integer")
         ELSE FirstRaise(criterios, k + 1)

\* ai_result.get(field, default)[:n] raises TypeError on null; a string or
\* a list is sliced
SliceRaises(j) == j.t = "null"

Sliced(j, default) == IF j.t = "missing" THEN JStr(default) ELSE j

\* the first exception raised between requests.post and the return of the
\* success path; inner tells whether it is raised inside the inner try block
ExcOf(o) ==
    CASE o.kind = "timeout" -> Exc("Timeout", FALSE, "timeout")
      [] o.kind = "neterror" -> Exc("ConnectionError", FALSE, "connection")
      [] o.kind = "http" /\ o.status # 200 -> NoExc
      [] OTHER ->
           CASE o.shape = "body_not_json" ->
                    Exc("JSONDecodeError", FALSE, "Expecting value")
             [] o.shape = "no_content_text" -> Exc("KeyError", FALSE, "content")
             [] o.shape = "text_not_str" ->
                    Exc("TypeError", FALSE, "object has no len()")
             [] o.shape = "text_no_json" ->
                    Exc("ValueError", TRUE, "No JSON encontrado en respuesta")
             [] o.shape = "text_bad_json" ->
                    Exc("JSONDecodeError", TRUE, "Expecting property name")
             [] OTHER ->
                  IF ~o.criterios_is_dict
                  THEN Exc("AttributeError", TRUE, "object has no attribute get")
                  ELSE IF FirstRaise(o.criterios, 1) # NoExc
                  THEN FirstRaise(o.criterios, 1)
                  ELSE IF SliceRaises(o.feedback_general)
                          \/ SliceRaises(o.feedback_fortalezas)
                          \/ SliceRaises(o.feedback_mejoras)
                  THEN Exc("TypeError", TRUE, "object is not subscriptable")
                  ELSE NoExc

\* except (json.JSONDecodeError, ValueError) of the inner try
CaughtByInner(e) == e.inner /\ e.cls \in {"JSONDecodeError", "ValueError"}

\* except Exception of the outer try: every exception class raised here
\* derives from Exception
CaughtOnlyRequestErrors(e) == e.cls \in {"ConnectionError"}

CaughtByGeneric(e) ==
    e.cls \in {"ConnectionError", "JSONDecodeError", "ValueError", "KeyError",
               "TypeError", "AttributeError", "OverflowError", "Timeout"}

\* (promedio / 5.0) * 1.5, where promedio is total / 9
ArgumentScoreOfTen(total) == Pts(3 * total, 2 * 10 * Len(CriterioList))

ArgumentScore(total) == Pts(3 * total, 2 * 5 * Len(CriterioList))

\* the value returned on the success path
success_result(truth_score, o, ms) ==
    LET validated_criterios == [c \in Criterios |-> Validate(o.criterios[c])]
        total == SumSeq([k \in 1..Len(CriterioList) |->
                            validated_criterios[CriterioList[k]]])
        argument_score == ArgumentScore(total)
    IN  [criterios |-> validated_criterios,
         feedback_general |-> Sliced(o.feedback_general, "Sin feedback general"),
         feedback_fortalezas |->
            Sliced(o.feedback_fortalezas, "Sin fortalezas identificadas"),
         feedback_mejoras |-> Sliced(o.feedback_mejoras, "Sin mejoras sugeridas"),
         truth_score |-> truth_score,
         argument_score |-> argument_score,
         final_score |-> truth_score + argument_score,
         ai_tokens_used |-> o.tokens,
         ai_processing_time_ms |-> ms,
         ai_model_used |-> "claude-3-sonnet-20240229",
         ai_raw_response |-> "ai_response"]

\* return final_score, result
ReturnedTruthOnly(data) ==
    [raised |-> FALSE, score |-> data.truth_score, data |-> data]

Returned(data) == [raised |-> FALSE, score |-> data.final_score, data |-> data]

\* except requests.exceptions.Timeout
timeout_result_timed_note(dflt, ms) ==
    [dflt EXCEPT
        !.feedback_general =
            JStr("Timeout en evaluacion con IA tras " \o ToString(ms) \o " ms"),
        !.ai_processing_time_ms = ms]

timeout_result(dflt, ms) ==
    [dflt EXCEPT
        !.feedback_general =
            JStr("Timeout en evaluacion con IA. Intente nuevamente."),
        !.ai_processing_time_ms = ms]

\* if not CLAUDE_API_KEY: return the default result; otherwise requests.post
\* is called
post_issued_never(key) == FALSE

post_issued_always(key) == TRUE

post_issued(key) == key

\* timeout=25 of requests.post, in seconds
PostTimeout == 25

\* requests.post returns or raises: a response or a connection error
\* arrives by itself; a server that stays silent ends the call only through
\* the timeout, which raises requests.exceptions.Timeout
PostBlocksOnSilence(o) == o.kind # "timeout"

PostReturns(o) == o.kind = "timeout" => PostTimeout > 0

evaluate_answer_with_ai_real(user_bool, user_reason, correct_bool, key, o, ms) ==
    LET truth_score == TruthScore(user_bool, correct_bool)
        dflt == default_result(truth_score)
        e == ExcOf(o)
    IN  IF ~post_issued(key) THEN Returned(dflt)
        ELSE IF e = NoExc /\ o.status # 200
        THEN Returned([dflt EXCEPT !.feedback_general =
                          JStr("Error de API: Claude API error")])
        ELSE IF e = NoExc
        THEN Returned(success_result(truth_score, o, ms))
        ELSE IF CaughtByInner(e)
        THEN Returned([dflt EXCEPT
                 !.ai_tokens_used = o.tokens,
                 !.ai_processing_time_ms = ms,
                 !.ai_raw_response = "ai_response",
                 !.feedback_general =
                     JStr("Error procesando respuesta de IA: " \o e.msg)])
        ELSE IF e.cls = "Timeout"
        THEN Returned(timeout_result(dflt, ms))
        ELSE IF CaughtByGeneric(e)
        THEN Returned([dflt EXCEPT
                 !.feedback_general = JStr("Error inesperado: " \o e.msg),
                 !.ai_processing_time_ms = ms])
        ELSE [raised |-> TRUE, score |-> 0, data |-> dflt]

-----------------------------------------------------------------------------
(* Catalog: CASES, five cases of two questions; correct[i+1] is the expected *)
(* answer of question index i                                                *)

CASES ==
    << [case_id |-> 1, correct |-> <<FALSE, TRUE>>],
       [case_id |-> 2, correct |-> <<FALSE, TRUE>>],
       [case_id |-> 3, correct |-> <<FALSE, TRUE>>],
       [case_id |-> 4, correct |-> <<TRUE, FALSE>>],
       [case_id |-> 5, correct |-> <<FALSE, TRUE>>] >>

\* range(len(case.questions))
QuestionIndicesReversed(case) ==
    [k \in 1..Len(case.correct) |-> Len(case.correct) - k]

QuestionIndices(case) == [k \in 1..Len(case.correct) |-> k - 1]

\* the (case_id, question_index) pairs in the order the nested loops of
\* submit_comprehensive visit them
RECURSIVE LoopOrder(_)
LoopOrder(cases) ==
    IF cases = <<>> THEN <<>>
    ELSE [k \in 1..Len(Head(cases).correct) |->
            <<Head(cases).case_id, QuestionIndices(Head(cases))[k]>>]
         \o LoopOrder(Tail(cases))

CatalogOrder == LoopOrder(CASES)

NumQuestions == Len(CatalogOrder)

CaseOf(case_id) == CHOOSE c \in {CASES[k] : k \in 1..Len(CASES)} : c.case_id = case_id

-----------------------------------------------------------------------------
(* Forms and request data *)

\* str.strip() on the strings of the model
Strip(s) ==
    CASE s = " Ana " -> "Ana"
      [] s = "   " -> ""
      [] s = " La licencia no cede derechos. " -> "La licencia no cede derechos."
      [] OTHER -> s

\* str.lower() on the strings of the model
Lower(s) == IF s = "Ana" THEN "ana" ELSE s

\* sha256 of "name:carne", taken as injective
get_student_hash(student_name, student_carne) ==
    Lower(Strip(student_name)) \o ":" \o Strip(student_carne)

\* one question of the posted form: the radio button case_<id>_q<i> and the
\* text area case_<id>_a<i>, each possibly absent from the form
Field(present, value) == [present |-> present, value |-> value]

Absent == Field(FALSE, "")

Entry(q, a) == [q |-> q, a |-> a]

AnsweredTrue == Entry(Field(TRUE, "true"), Field(TRUE, " La licencia no cede derechos. "))

AnsweredFalse == Entry(Field(TRUE, "false"), Field(TRUE, "La licencia no cede derechos."))

BlankReason == Entry(Field(TRUE, "true"), Field(TRUE, "   "))

MissingEntry == Entry(Absent, Absent)

MissingReason == Entry(Field(TRUE, "true"), Absent)

MissingBool == Entry(Absent, Field(TRUE, "La licencia no cede derechos."))

CompleteEntries == {AnsweredTrue, AnsweredFalse}

PartialEntries == {MissingReason, MissingBool, BlankReason}

\* the (case_id, question_index) pairs that name the fields of the form
FormKeys ==
    { <<CASES[c].case_id, i>> :
        c \in 1..Len(CASES), i \in 0..(Len(CASES[1].correct) - 1) }

OneChanged(m, x) == [k \in FormKeys |-> IF k = m THEN x ELSE AnsweredTrue]

\* forms: every question answered alike, or one question left without its
\* fields, or the first question of case 4 left partly filled
Forms ==
    { [k \in FormKeys |-> e] : e \in CompleteEntries }
    \cup { OneChanged(m, MissingEntry) : m \in FormKeys }
    \cup { OneChanged(<<4, 0>>, x) : x \in PartialEntries }

NoForm == [k \in FormKeys |-> MissingEntry]

\* the form lacks the boolean or the justification of question k
LacksAnswer(form, k) ==
    ~form[k].q.present \/ ~form[k].a.present \/ Strip(form[k].a.value) = ""

FormLacksAnswer(form) == \E k \in FormKeys : LacksAnswer(form, k)

\* request.form.get(question_key) == 'true'
FormBoolMissingIsTrue(entry) == ~entry.q.present \/ entry.q.value = "true"

FormBool(entry) == entry.q.present /\ entry.q.value = "true"

\* request.form.get(answer_key, '').strip(), then the placeholder if empty
FormReason(entry) ==
    LET user_reason == Strip(IF entry.a.present THEN entry.a.value ELSE "")
    IN  IF user_reason = "" THEN "Sin justificacion proporcionada."
        ELSE user_reason

\* the four tables, empty
EmptyDb ==
    [results |-> <<>>, question_evaluations |-> <<>>,
     student_access_tokens |-> <<>>, events |-> <<>>]

\* a request that is not being handled; response, cause and form are those
\* of the last handled request; posts counts the requests.post calls made
\* while the request is handled
IdleReq(response, cause, form) ==
    [pc |-> "idle", response |-> response, cause |-> cause, form |-> form,
     student_id |-> "", student_hash |-> "", start_time |-> -1,
     end_time |-> -1, duration_seconds |-> 0, idx |-> 1,
     case_answers |-> <<>>, case_score |-> 0, total_score |-> 0,
     all_answers |-> <<>>, all_question_evaluations |-> <<>>,
     failed |-> <<>>, posts |-> 0, service |-> Timeout, deviations |-> 0,
     overall_level |-> "", result_id |-> 0, txn |-> EmptyDb]

-----------------------------------------------------------------------------
(* State *)

Browsers == {"b1"}

\* session cookie without student data (also the state after session.clear())
NoSession ==
    [student_name |-> "", student_carne |-> "", student_hash |-> "",
     exam_start_time |-> -1, instructor |-> FALSE]

NoCall == [called |-> FALSE]

InitCommon ==
    /\ CLAUDE_API_KEY \in BOOLEAN
    /\ now = 0
    /\ session = [b \in Browsers |-> NoSession]
    /\ req = [b \in Browsers |-> IdleReq("none", "", NoForm)]
    /\ db = EmptyDb
    /\ evalCur = NoCall
    /\ evalKept = NoCall

-----------------------------------------------------------------------------
(* The evaluator on its own: calls with arbitrary inputs and outcomes *)

\* a justification with two consecutive spaces and two of the formal
\* patterns ('no obstante', 'por tanto')
PastedReason == "No obstante,  por tanto no cede derechos."

Reasons ==
    {"Sin justificacion proporcionada.", "La licencia no cede derechos.",
     PastedReason}

Call(user_bool, user_reason, correct_bool, o, ms) ==
    [called |-> TRUE, user_bool |-> user_bool, user_reason |-> user_reason,
     correct_bool |-> correct_bool, outcome |-> o, ms |-> ms,
     posted |-> post_issued(CLAUDE_API_KEY),
     result |-> evaluate_answer_with_ai_real(user_bool, user_reason,
                    correct_bool, CLAUDE_API_KEY, o, ms)]

EvalCallFrom(outcomes) ==
    /\ evalCur = NoCall
    /\ \E user_bool \in BOOLEAN, correct_bool \in BOOLEAN,
          user_reason \in Reasons, o \in outcomes, ms \in ElapsedMs :
            evalCur' = Call(user_bool, user_reason, correct_bool, o, ms)
    /\ UNCHANGED <<CLAUDE_API_KEY, now, session, req, db, evalKept>>

EvalCall == EvalCallFrom(Outcomes)

\* the caller takes the returned tuple
EvalReturn ==
    /\ evalCur # NoCall
    /\ evalCur' = NoCall
    /\ UNCHANGED <<CLAUDE_API_KEY, now, session, req, db, evalKept>>

NextEval == EvalCall \/ EvalReturn

SpecEval == InitCommon /\ [][NextEval]_vars

-----------------------------------------------------------------------------
(* Claims about the evaluator *)

\* C1: every returned final score lies between 0 and the per-question
\* maximum of 3.0 points, whatever the inputs and the analyzer outcome.
C1_FinalScoreInRange ==
    evalCur # NoCall =>
        /\ ~evalCur.result.raised
        /\ 0 <= evalCur.result.score
        /\ evalCur.result.score <= MaxPerQuestion
        /\ 0 <= evalCur.result.data.final_score
        /\ evalCur.result.data.final_score <= MaxPerQuestion

\* a call on the success path whose sub-scores all lie at or beyond the top
\* of the scale, with the correct boolean: the maximum is attained
C1_Witness ==
    /\ evalCur # NoCall
    /\ CLAUDE_API_KEY
    /\ evalCur.result.data.ai_model_used # "none"
    /\ evalCur.outcome.criterios["citas_precision"] = RawInt(5 + RawSlack)
    /\ evalCur.result.score = MaxPerQuestion

\* C2: on every path the truth component of the breakdown is 1.5 points if
\* the submitted boolean equals the expected one and 0 otherwise.
C2_TruthComponent ==
    evalCur # NoCall =>
        evalCur.result.data.truth_score =
            (IF evalCur.user_bool = evalCur.correct_bool THEN Pts(3, 2) ELSE 0)

\* both booleans false, on a fallback path: the truth component is awarded
C2_Witness ==
    /\ evalCur # NoCall
    /\ CLAUDE_API_KEY
    /\ ~evalCur.user_bool /\ ~evalCur.correct_bool
    /\ evalCur.result.data.ai_model_used = "none"
    /\ evalCur.result.data.truth_score = Pts(3, 2)

\* the outcomes C5 lists as failures
IsFailure(o) == o.status # 200 \/ ExcOf(o) # NoExc

DefaultFeedback == default_result(0).feedback_general

\* C5: the evaluator never raises; on every failure it returns the truth
\* score plus the fallback argument score, with a diagnostic note in
\* feedback_general.
C5_NeverRaises ==
    evalCur # NoCall =>
        /\ ~evalCur.result.raised
        /\ (CLAUDE_API_KEY /\ IsFailure(evalCur.outcome)) =>
              /\ evalCur.result.score =
                    TruthScore(evalCur.user_bool, evalCur.correct_bool)
                        + DefaultArgumentScore
              /\ evalCur.result.data.final_score = evalCur.result.score
              /\ evalCur.result.data.feedback_general.t = "str"
              /\ evalCur.result.data.feedback_general # DefaultFeedback
              /\ evalCur.result.data.feedback_general.v # ""

\* an exception that is neither a timeout nor a parse error (Infinity as a
\* sub-score) ends in the fallback result
C5_Witness ==
    /\ evalCur # NoCall
    /\ CLAUDE_API_KEY
    /\ ExcOf(evalCur.outcome).cls = "OverflowError"
    /\ ~evalCur.result.raised
    /\ evalCur.result.score = DefaultArgumentScore

\* the penalty component of an answer: the handler holds it at 0.0
PenaltyComponent == 0

Clamp(x, lo, hi) == Max2(lo, Min2(hi, x))

-----------------------------------------------------------------------------
(* Repeated calls: one earlier call is remembered and compared with the     *)
(* current one                                                              *)

AllFours == [c \in Criterios |-> RawInt(4)]

DetOutcomes ==
    { Timeout, NetError, HttpError(500),
      Malformed("text_no_json", TokInt(7)), Malformed("body_not_json", TokInt(7)),
      Parsed(TRUE, AllFours, JStr("general"), JStr("fortalezas"),
             JStr("mejoras"), TokInt(7)),
      Parsed(TRUE, [AllFours EXCEPT !["citas_precision"] = RawFloat(27)],
             JMissing, JMissing, JMissing, TokInt(7)),
      Parsed(TRUE, [AllFours EXCEPT !["citas_precision"] = RawOther("nan")],
             JStr("general"), JStr("fortalezas"), JStr("mejoras"), TokInt(7)),
      Parsed(TRUE, AllFours, JStr("general"), JList("fortalezas"),
             JStr("mejoras"), TokInt(7)) }

EvalCallDet == EvalCallFrom(DetOutcomes)

\* the current call becomes the remembered earlier call
KeepCall ==
    /\ evalCur # NoCall
    /\ evalKept' = evalCur
    /\ evalCur' = NoCall
    /\ UNCHANGED <<CLAUDE_API_KEY, now, session, req, db>>

NextDet == EvalCallDet \/ KeepCall \/ EvalReturn

SpecDet == InitCommon /\ [][NextDet]_vars

SameInputs(c1, c2) ==
    /\ c1.user_bool = c2.user_bool
    /\ c1.user_reason = c2.user_reason
    /\ c1.correct_bool = c2.correct_bool
    /\ c1.outcome = c2.outcome

ScoredFields(r) ==
    <<r.raised, r.score, r.data.truth_score, r.data.argument_score,
      r.data.final_score, r.data.criterios, r.data.feedback_general,
      r.data.feedback_fortalezas, r.data.feedback_mejoras>>

\* C7: two calls with the same booleans, justification and analyzer response
\* return the same truth, argument and final scores, sub-scores and
\* feedback, whatever was called in between and however long each took.
C7_Deterministic ==
    (evalCur # NoCall /\ evalKept # NoCall /\ SameInputs(evalKept, evalCur))
        => ScoredFields(evalKept.result) = ScoredFields(evalCur.result)

\* the same timed-out call made twice, with different elapsed times
C7_Witness ==
    /\ evalCur # NoCall /\ evalKept # NoCall
    /\ CLAUDE_API_KEY
    /\ SameInputs(evalKept, evalCur)
    /\ evalCur.outcome = Timeout
    /\ evalKept.ms # evalCur.ms
    /\ evalKept.result.data.ai_processing_time_ms
          # evalCur.result.data.ai_processing_time_ms

-----------------------------------------------------------------------------
(* Student routes and persistence *)

\* EXAM_DEADLINE, as a tick of the model's clock
EXAM_DEADLINE == 1

is_exam_blocked_late == now > EXAM_DEADLINE + 1

is_exam_blocked == now > EXAM_DEADLINE

has_student_attempted(student_hash) ==
    \E k \in 1..Len(db.results) : db.results[k].student_hash = student_hash

Names == {"", " Ana ", "ana"}

Carnes == {"", "2024"}

\* analyzer outcomes met while a submission is evaluated
OkMixed ==
    Parsed(TRUE, [AllFours EXCEPT !["citas_precision"] = RawInt(5 + RawSlack)],
           JStr("general"), JStr("fortalezas"), JStr("mejoras"), TokInt(7))

OkListFeedback ==
    Parsed(TRUE, AllFours, JStr("general"), JList("fortalezas"),
           JStr("mejoras"), TokInt(7))

SubmitOutcomes ==
    { Timeout, Malformed("text_no_json", TokList), OkMixed, OkListFeedback }

SubmitElapsedMs == {130}

\* the clock is read only when a request starts, so it need not advance
\* while every browser has a request in progress
Tick ==
    /\ now < MaxTime
    /\ \E b \in DOMAIN req : req[b].pc = "idle"
    /\ now' = now + 1
    /\ UNCHANGED <<CLAUDE_API_KEY, session, req, db, evalCur, evalKept>>

Respond(b, response) ==
    req' = [req EXCEPT ![b] = IdleReq(response, "", NoForm)]

start_exam(b) ==
    /\ req[b].pc = "idle"
    /\ \E name \in Names, carne \in Carnes :
         LET student_name == Strip(name)
             student_carne == Strip(carne)
             student_hash == get_student_hash(student_name, student_carne)
         IN  IF is_exam_blocked
             THEN Respond(b, "exam_blocked") /\ UNCHANGED session
             ELSE IF student_name = "" \/ student_carne = ""
             THEN Respond(b, "redirect_index") /\ UNCHANGED session
             ELSE IF has_student_attempted(student_hash)
             THEN Respond(b, "redirect_index") /\ UNCHANGED session
             ELSE /\ session' = [session EXCEPT ![b] =
                        [@ EXCEPT !.student_name = student_name,
                                  !.student_carne = student_carne,
                                  !.student_hash = student_hash,
                                  !.exam_start_time = now]]
                  /\ Respond(b, "redirect_comprehensive_exam")
    /\ UNCHANGED <<CLAUDE_API_KEY, now, db, evalCur, evalKept>>

\* int((end_time - start_time).total_seconds())
DurationFromDeadline(start_time, end_time) == EXAM_DEADLINE - start_time

Duration(start_time, end_time) == end_time - start_time

SessionCompleteWithoutStart(se) ==
    se.student_name # "" /\ se.student_carne # "" /\ se.student_hash # ""

\* all([student_name, student_carne, student_hash, start_time_iso])
SessionComplete(se) ==
    /\ se.student_name # "" /\ se.student_carne # ""
    /\ se.student_hash # "" /\ se.exam_start_time # -1

\* submit_comprehensive up to the start of the evaluation loop, for a form
\* out of forms; steady tells that the analyzer treats every question of
\* the submission alike
SubmitBeginFrom(b, forms, steady) ==
    /\ req[b].pc = "idle"
    /\ LET se == session[b] IN
       IF is_exam_blocked
       THEN Respond(b, "exam_blocked")
       ELSE IF se.student_name = ""
       THEN Respond(b, "redirect_index")
       ELSE IF ~SessionComplete(se)
       THEN req' = [req EXCEPT ![b] =
                       IdleReq("redirect_index", "session_incomplete", NoForm)]
       ELSE IF has_student_attempted(se.student_hash)
       THEN Respond(b, "redirect_index")
       ELSE \E form \in forms,
               service \in (IF CLAUDE_API_KEY THEN SubmitOutcomes ELSE {Timeout}) :
              req' = [req EXCEPT ![b] =
                 [IdleReq("none", "", form) EXCEPT
                    !.pc = "eval",
                    !.student_id =
                        se.student_name \o " (" \o se.student_carne \o ")",
                    !.student_hash = se.student_hash,
                    !.start_time = se.exam_start_time,
                    !.end_time = now,
                    !.duration_seconds = Duration(se.exam_start_time, now),
                    !.service = service,
                    !.deviations = IF steady THEN MaxDeviations
                                   ELSE IF FormLacksAnswer(form) THEN 1
                                   ELSE 0]]
    /\ UNCHANGED <<CLAUDE_API_KEY, now, session, db, evalCur, evalKept>>

SubmitBegin(b) == SubmitBeginFrom(b, Forms, FALSE)

\* total_score += case_score
AccumulateTwice(total_score, case_score) == total_score + case_score + case_score

Accumulate(total_score, case_score) == total_score + case_score

\* 'basico' below 1.8 points per question, 'avanzado' from 2.4
OverallLevel(total_score) ==
    IF total_score * 10 < Pts(18, 1) * NumQuestions THEN "basico"
    ELSE IF total_score * 10 >= Pts(24, 1) * NumQuestions THEN "avanzado"
    ELSE "intermedio"

\* the breakdowns of the fallback path share one dictionary: a later
\* failure rewrites the note of the earlier ones
AppendEvaluationAliased(all_question_evaluations, evaluation_data) ==
    Append([k \in 1..Len(all_question_evaluations) |->
               IF /\ all_question_evaluations[k].ai_model_used = "none"
                  /\ evaluation_data.ai_model_used = "none"
               THEN [all_question_evaluations[k] EXCEPT
                        !.feedback_general = evaluation_data.feedback_general]
               ELSE all_question_evaluations[k]],
           evaluation_data)

\* all_question_evaluations.append(evaluation_data)
AppendEvaluation(all_question_evaluations, evaluation_data) ==
    Append(all_question_evaluations, evaluation_data)

\* one iteration of the inner loop of submit_comprehensive; after the last
\* question of a case the case is appended and added to the total, after
\* the last case the overall level is computed
EvalQuestion(b) ==
    /\ req[b].pc = "eval"
    /\ LET r == req[b]
           case_id == CatalogOrder[r.idx][1]
           i == CatalogOrder[r.idx][2]
           case == CaseOf(case_id)
           user_bool == FormBool(r.form[<<case_id, i>>])
           user_reason == FormReason(r.form[<<case_id, i>>])
           correct_bool == case.correct[i + 1]
           last_of_case ==
               r.idx = NumQuestions \/ CatalogOrder[r.idx + 1][1] # case_id
       IN  \E o \in (IF CLAUDE_API_KEY /\ r.deviations < MaxDeviations
                     THEN SubmitOutcomes ELSE {r.service}),
              ms \in SubmitElapsedMs :
             LET res == evaluate_answer_with_ai_real(user_bool, user_reason,
                            correct_bool, CLAUDE_API_KEY, o, ms)
                 evaluation_data ==
                     res.data @@
                     [case_id |-> case_id, question_index |-> i,
                      user_answer_text |-> user_reason,
                      user_answer_bool |-> IF user_bool THEN 1 ELSE 0,
                      correct_answer_bool |-> IF correct_bool THEN 1 ELSE 0]
                 case_answers ==
                     Append(r.case_answers,
                            [user_bool |-> user_bool, user_reason |-> user_reason,
                             correct |-> correct_bool, score |-> res.score])
                 case_score == r.case_score + res.score
                 total_score ==
                     IF last_of_case THEN Accumulate(r.total_score, case_score)
                     ELSE r.total_score
             IN  /\ post_issued(CLAUDE_API_KEY) => PostReturns(o)
                 /\ IF res.raised
                    THEN req' = [req EXCEPT ![b] =
                                    IdleReq("error_500", "evaluation", r.form)]
                    ELSE req' = [req EXCEPT ![b] =
                       [r EXCEPT
                          !.idx = IF r.idx = NumQuestions THEN 1 ELSE r.idx + 1,
                          !.pc = IF r.idx = NumQuestions THEN "insert_result"
                                 ELSE "eval",
                          !.all_question_evaluations =
                              AppendEvaluation(@, evaluation_data),
                          !.failed = Append(@, CLAUDE_API_KEY /\ IsFailure(o)),
                          !.posts = IF post_issued(CLAUDE_API_KEY)
                                    THEN @ + 1 ELSE @,
                          !.deviations = IF o = r.service THEN @ ELSE @ + 1,
                          !.case_answers =
                              IF last_of_case THEN <<>> ELSE case_answers,
                          !.case_score = IF last_of_case THEN 0 ELSE case_score,
                          !.all_answers =
                              IF last_of_case
                              THEN Append(@, [case_id |-> case_id,
                                              answers |-> case_answers,
                                              score |-> case_score])
                              ELSE @,
                          !.total_score = total_score,
                          !.overall_level =
                              IF r.idx = NumQuestions
                              THEN OverallLevel(total_score) ELSE @]]
    /\ UNCHANGED <<CLAUDE_API_KEY, now, session, db, evalCur, evalKept>>

\* cur.execute("INSERT INTO <table> ...") inside the open transaction
InsertTwice(txn, table, row) == [txn EXCEPT ![table] = Append(Append(@, row), row)]

Insert(txn, table, row) == [txn EXCEPT ![table] = Append(@, row)]

\* db.commit(): the rows of the transaction become part of the database
Committed(d, txn) ==
    [t \in DOMAIN d |-> d[t] \o txn[t]]

\* close_connection: db.close() without commit discards the open transaction
close_connection_commits(d, txn) == Committed(d, txn)

close_connection(d, txn) == d

\* sqlite3 binds str and int parameters; a list raises ProgrammingError
Bindable(eval_data) ==
    /\ eval_data.feedback_general.t = "str"
    /\ eval_data.feedback_fortalezas.t = "str"
    /\ eval_data.feedback_mejoras.t = "str"
    /\ eval_data.ai_tokens_used.t = "int"

\* the first INSERT of a transaction takes the write lock of the database
\* file; it waits while another connection holds an open write transaction
WriteLockFree(b) == \A c \in DOMAIN req \ {b} : req[c].txn = EmptyDb

\* INSERT INTO results; AUTOINCREMENT gives the next id
InsertResult(b) ==
    /\ req[b].pc = "insert_result"
    /\ WriteLockFree(b)
    /\ LET r == req[b]
           result_id == Len(db.results) + 1
           row == [id |-> result_id, timestamp |-> r.end_time,
                   student_id |-> r.student_id,
                   student_hash |-> r.student_hash, case_id |-> 0,
                   all_cases |-> [k \in 1..Len(r.all_answers) |->
                       [case_id |-> r.all_answers[k].case_id,
                        answers |-> r.all_answers[k].answers,
                        score |-> r.all_answers[k].score]],
                   score |-> r.total_score, start_time |-> r.start_time,
                   end_time |-> r.end_time,
                   duration_seconds |-> r.duration_seconds,
                   paste_attempts |-> 0, copy_attempts |-> 0,
                   total_penalties |-> PenaltyComponent,
                   overall_level |-> r.overall_level]
       IN  req' = [req EXCEPT ![b] =
              [r EXCEPT !.pc = "insert_evaluations", !.idx = 1,
                        !.result_id = result_id,
                        !.txn = Insert(r.txn, "results", row)]]
    /\ UNCHANGED <<CLAUDE_API_KEY, now, session, db, evalCur, evalKept>>

\* one iteration of the loop INSERT INTO question_evaluations; a value that
\* sqlite3 cannot bind raises, the request ends with status 500 and the
\* teardown closes the connection
InsertEvaluation(b) ==
    /\ req[b].pc = "insert_evaluations"
    /\ LET r == req[b]
           eval_data == r.all_question_evaluations[r.idx]
       IN  IF Bindable(eval_data)
           THEN /\ req' = [req EXCEPT ![b] =
                     [r EXCEPT
                        !.idx = r.idx + 1,
                        !.pc = IF r.idx = Len(r.all_question_evaluations)
                               THEN "insert_token" ELSE "insert_evaluations",
                        !.txn = Insert(r.txn, "question_evaluations",
                                   eval_data @@ [result_id |-> r.result_id])]]
                /\ UNCHANGED db
           ELSE /\ req' = [req EXCEPT ![b] =
                     IdleReq("error_500", "ProgrammingError", r.form)]
                /\ db' = close_connection(db, r.txn)
    /\ UNCHANGED <<CLAUDE_API_KEY, now, session, evalCur, evalKept>>

\* INSERT INTO student_access_tokens with a fresh token
InsertToken(b) ==
    /\ req[b].pc = "insert_token"
    /\ req' = [req EXCEPT ![b] =
          [@ EXCEPT !.pc = "insert_event",
                    !.txn = Insert(@, "student_access_tokens",
                               [result_id |-> req[b].result_id,
                                token |-> req[b].result_id,
                                access_count |-> 0])]]
    /\ UNCHANGED <<CLAUDE_API_KEY, now, session, db, evalCur, evalKept>>

\* INSERT INTO events, the exam_completed record
InsertEvent(b) ==
    /\ req[b].pc = "insert_event"
    /\ req' = [req EXCEPT ![b] =
          [@ EXCEPT !.pc = "commit",
                    !.txn = Insert(@, "events",
                               [result_id |-> req[b].result_id,
                                event_type |-> "exam_completed",
                                event_time |-> req[b].end_time])]]
    /\ UNCHANGED <<CLAUDE_API_KEY, now, session, db, evalCur, evalKept>>

\* db.commit(), session.clear() and the feedback page
Commit(b) ==
    /\ req[b].pc = "commit"
    /\ db' = Committed(db, req[b].txn)
    /\ session' = [session EXCEPT ![b] = NoSession]
    /\ req' = [req EXCEPT ![b] = IdleReq("feedback_page", "", req[b].form)]
    /\ UNCHANGED <<CLAUDE_API_KEY, now, evalCur, evalKept>>

\* the request is cancelled or its worker dies while the handler runs; the
\* connection is closed without commit
Abort(b) ==
    /\ req[b].pc # "idle"
    /\ db' = close_connection(db, req[b].txn)
    /\ req' = [req EXCEPT ![b] =
          IdleReq("error_500", "killed:" \o req[b].pc, req[b].form)]
    /\ UNCHANGED <<CLAUDE_API_KEY, now, session, evalCur, evalKept>>

Next ==
    \/ Tick
    \/ \E b \in Browsers :
         \/ start_exam(b)
         \/ SubmitBegin(b)
         \/ EvalQuestion(b)
         \/ InsertResult(b)
         \/ InsertEvaluation(b)
         \/ InsertToken(b)
         \/ InsertEvent(b)
         \/ Commit(b)
         \/ Abort(b)

Spec == InitCommon /\ [][Next]_vars

-----------------------------------------------------------------------------
(* Claims about a submission *)

Killed(r) ==
    r.cause \in {"killed:eval", "killed:insert_result",
                 "killed:insert_evaluations", "killed:insert_token",
                 "killed:insert_event", "killed:commit"}

\* rows of a table that belong to one results row
RowsOf(table, result_id) ==
    SelectSeq(db[table], LAMBDA row : row.result_id = result_id)

KeysOf(rows) == [k \in 1..Len(rows) |-> <<rows[k].case_id, rows[k].question_index>>]

FallbackMarked(e) ==
    /\ e.ai_model_used = "none"
    /\ e.argument_score = DefaultArgumentScore
    /\ e.final_score = e.truth_score + DefaultArgumentScore
    /\ e.feedback_general.t = "str"
    /\ e.feedback_general # DefaultFeedback

\* C3: whatever the analyzer answers to the ten questions, a submission
\* with a valid session ends only in the persisted report (or is killed from
\* outside), never in an error caused by the scoring; every failed analyzer
\* call leaves the fallback score with a diagnostic marker, and a persisted
\* report holds all ten breakdowns.
C3_NoAnalyzerOutcomeAborts ==
    \A b \in Browsers :
        /\ req[b].response = "error_500" => Killed(req[b])
        /\ \A k \in 1..Len(req[b].all_question_evaluations) :
              req[b].failed[k] =>
                  FallbackMarked(req[b].all_question_evaluations[k])
        /\ req[b].response = "feedback_page" =>
              \A k \in 1..Len(db.results) :
                  Len(RowsOf("question_evaluations", db.results[k].id))
                      = NumQuestions

ResultIds == { db.results[k].id : k \in 1..Len(db.results) }

\* C6: the database holds a results row together with its ten
\* question_evaluations rows, its access token and its exam_completed
\* event, or none of them, in every state.
C6_AllOrNothing ==
    /\ \A id \in ResultIds :
          /\ Len(SelectSeq(db.results, LAMBDA row : row.id = id)) = 1
          /\ Len(RowsOf("question_evaluations", id)) = NumQuestions
          /\ Len(RowsOf("student_access_tokens", id)) = 1
          /\ Len(SelectSeq(RowsOf("events", id),
                     LAMBDA ev : ev.event_type = "exam_completed")) = 1
    /\ \A t \in {"question_evaluations", "student_access_tokens", "events"} :
          \A k \in 1..Len(db[t]) : db[t][k].result_id \in ResultIds

\* a request was killed after the results row, ten evaluation rows and the
\* token had been inserted and before the commit: nothing is in the database
C6_Witness ==
    \E b \in Browsers :
        /\ req[b].cause = "killed:insert_event"
        /\ req[b].response = "error_500"
        /\ db = EmptyDb

\* catalog order: cases 1..5, question index 0 then 1 within each case
ExpectedOrder ==
    << <<1, 0>>, <<1, 1>>, <<2, 0>>, <<2, 1>>, <<3, 0>>, <<3, 1>>,
       <<4, 0>>, <<4, 1>>, <<5, 0>>, <<5, 1>> >>

KeyLess(a, b) == a[1] < b[1] \/ (a[1] = b[1] /\ a[2] < b[2])

\* SELECT ... ORDER BY case_id, question_index, as view_result,
\* get_evaluation_details and student_results read the rows of a result
OrderByCaseQuestion(rows) ==
    LET key(row) == <<row.case_id, row.question_index>>
        all == { rows[k] : k \in 1..Len(rows) }
    IN  [k \in 1..Len(rows) |->
            CHOOSE row \in all :
                Cardinality({ x \in all : KeyLess(key(x), key(row)) }) = k - 1]

\* the answer stored at position i + 1 of a case is the one of the
\* evaluation row (case_id, i)
AnswerMatchesRow(answer, row) ==
    /\ answer.score = row.final_score
    /\ answer.user_reason = row.user_answer_text
    /\ answer.user_bool = (row.user_answer_bool = 1)
    /\ answer.correct = (row.correct_answer_bool = 1)

\* C9: the evaluation list of a running submission and the rows and per-case
\* answer lists of every persisted report follow catalog order.
C9_CatalogOrder ==
    /\ \A b \in Browsers :
          LET evals == req[b].all_question_evaluations IN
          /\ Len(evals) <= Len(ExpectedOrder)
          /\ KeysOf(evals) = SubSeq(ExpectedOrder, 1, Len(evals))
    /\ \A n \in 1..Len(db.results) :
          LET res == db.results[n]
              rows == RowsOf("question_evaluations", res.id)
          IN  /\ KeysOf(rows) = ExpectedOrder
              /\ OrderByCaseQuestion(rows) = rows
              /\ [c \in 1..Len(res.all_cases) |-> res.all_cases[c].case_id]
                    = <<1, 2, 3, 4, 5>>
              /\ \A k \in 1..Len(rows) :
                    LET case == res.all_cases[rows[k].case_id] IN
                    /\ rows[k].question_index + 1 <= Len(case.answers)
                    /\ AnswerMatchesRow(
                          case.answers[rows[k].question_index + 1], rows[k])

\* a persisted report whose questions were scored differently, one of them
\* on the fallback path
C9_Witness ==
    /\ Len(db.results) = 1
    /\ Len(db.question_evaluations) = NumQuestions
    /\ db.question_evaluations[1].final_score
          # db.question_evaluations[2].final_score
    /\ \E j, k \in 1..Len(db.question_evaluations) :
          /\ db.question_evaluations[j].ai_model_used = "none"
          /\ db.question_evaluations[k].ai_model_used # "none"

FinalScores(rows) == [k \in 1..Len(rows) |-> rows[k].final_score]

\* C10: in every persisted report each case subtotal is the sum of the final
\* scores of that case's question rows, and results.score is the sum of the
\* subtotals, which is the sum of all ten final scores.
C10_Totals ==
    \A n \in 1..Len(db.results) :
        LET res == db.results[n]
            rows == RowsOf("question_evaluations", res.id)
        IN  /\ \A c \in 1..Len(res.all_cases) :
                  res.all_cases[c].score =
                      SumSeq(FinalScores(SelectSeq(rows,
                          LAMBDA row : row.case_id = res.all_cases[c].case_id)))
            /\ res.score =
                  SumSeq([c \in 1..Len(res.all_cases) |-> res.all_cases[c].score])
            /\ res.score = SumSeq(FinalScores(rows))

\* a persisted report with unequal case subtotals
C10_Witness ==
    \E n \in 1..Len(db.results) :
        LET res == db.results[n] IN
        /\ Len(res.all_cases) = Len(CASES)
        /\ res.score > 0
        /\ res.all_cases[1].score # res.all_cases[2].score
        /\ Len(RowsOf("question_evaluations", res.id)) = NumQuestions

-----------------------------------------------------------------------------
(* The other routes, and specifications over a small family of submissions *)

Pasted == Entry(Field(TRUE, "true"), Field(TRUE, PastedReason))

\* detect_paste_copy_attempts on the strings of the model: none is longer
\* than 300 characters or holds a typographic quote or dash or a tab
detect_paste_copy_attempts(user_reason) ==
    LET long == FALSE
        typographic == FALSE
        spaces == user_reason \in {PastedReason, "   "}
        formal == IF user_reason = PastedReason THEN 2 ELSE 0
        paste_indicators ==
            (IF long THEN 1 ELSE 0) + (IF typographic THEN 1 ELSE 0)
            + (IF spaces THEN 1 ELSE 0)
        copy_indicators == IF formal >= 2 THEN 1 ELSE 0
    IN  <<paste_indicators, copy_indicators>>

\* forms of the small family: every question answered alike, or one
\* justification pasted
RouteForms ==
    { [k \in FormKeys |-> AnsweredTrue], OneChanged(<<2, 1>>, Pasted) }

SubmitSteady(b) == SubmitBeginFrom(b, RouteForms, TRUE)

\* the session is a cookie kept by the browser: none, or one that holds the
\* student data without exam_start_time
StaleSession ==
    [NoSession EXCEPT !.student_name = "Ana", !.student_carne = "2024",
                      !.student_hash = get_student_hash("Ana", "2024")]

SessionCookies == {NoSession, StaleSession}

INSTRUCTOR_PASSWORD == "organismojudicial"

Passwords == {INSTRUCTOR_PASSWORD, "otra"}

comprehensive_exam(b) ==
    /\ req[b].pc = "idle"
    /\ IF is_exam_blocked
       THEN Respond(b, "exam_blocked")
       ELSE IF session[b].student_name = ""
       THEN Respond(b, "redirect_index")
       ELSE IF has_student_attempted(session[b].student_hash)
       THEN Respond(b, "redirect_index")
       ELSE Respond(b, "exam_page")
    /\ UNCHANGED <<CLAUDE_API_KEY, now, session, db, evalCur, evalKept>>

login(b) ==
    /\ req[b].pc = "idle"
    /\ \E method \in {"GET", "POST"}, password \in Passwords :
         IF method = "POST" /\ password = INSTRUCTOR_PASSWORD
         THEN /\ session' = [session EXCEPT ![b].instructor = TRUE]
              /\ Respond(b, "redirect_dashboard")
         ELSE /\ UNCHANGED session
              /\ Respond(b, "login_page")
    /\ UNCHANGED <<CLAUDE_API_KEY, now, db, evalCur, evalKept>>

logout(b) ==
    /\ req[b].pc = "idle"
    /\ session' = [session EXCEPT ![b].instructor = FALSE]
    /\ Respond(b, "redirect_login")
    /\ UNCHANGED <<CLAUDE_API_KEY, now, db, evalCur, evalKept>>

\* the decorator: anyone but a logged-in instructor is sent to the login page
require_instructor(b, response) ==
    IF ~session[b].instructor THEN Respond(b, "redirect_login")
    ELSE Respond(b, response)

dashboard(b) ==
    /\ req[b].pc = "idle"
    /\ require_instructor(b, "dashboard_page")
    /\ UNCHANGED <<CLAUDE_API_KEY, now, session, db, evalCur, evalKept>>

\* result ids a request may name: those of the table and one beyond
RequestedIds(table) == 1..(Len(db[table]) + 1)

view_result(b) ==
    /\ req[b].pc = "idle"
    /\ \E result_id \in RequestedIds("results") :
         require_instructor(b,
            IF \E k \in 1..Len(db.results) : db.results[k].id = result_id
            THEN "result_page" ELSE "not_found_404")
    /\ UNCHANGED <<CLAUDE_API_KEY, now, session, db, evalCur, evalKept>>

get_evaluation_details(b) ==
    /\ req[b].pc = "idle"
    /\ \E result_id \in RequestedIds("results") :
         require_instructor(b, "evaluations_json")
    /\ UNCHANGED <<CLAUDE_API_KEY, now, session, db, evalCur, evalKept>>

\* UPDATE student_access_tokens SET access_count = access_count + 1
\* WHERE token = ?, then db.commit()
UpdateAccessStampingResult(d, token) ==
    [d EXCEPT !.results =
        [k \in 1..Len(@) |->
            IF @[k].id = token THEN [@[k] EXCEPT !.timestamp = -1] ELSE @[k]]]

UpdateAccess(d, token) ==
    [d EXCEPT !.student_access_tokens =
        [k \in 1..Len(@) |->
            IF @[k].token = token
            THEN [@[k] EXCEPT !.access_count = @ + 1] ELSE @[k]]]

student_results(b) ==
    /\ req[b].pc = "idle"
    /\ \E token \in RequestedIds("student_access_tokens") :
         IF \E k \in 1..Len(db.student_access_tokens) :
                db.student_access_tokens[k].token = token
         THEN /\ \A k \in 1..Len(db.student_access_tokens) :
                    db.student_access_tokens[k].access_count < MaxAccess
              /\ db' = UpdateAccess(db, token)
              /\ Respond(b, "results_page")
         ELSE /\ UNCHANGED db
              /\ Respond(b, "error_404")
    /\ UNCHANGED <<CLAUDE_API_KEY, now, session, evalCur, evalKept>>

\* the statements of submit_comprehensive after its session checks
Handler(b) ==
    \/ EvalQuestion(b)
    \/ InsertResult(b)
    \/ InsertEvaluation(b)
    \/ InsertToken(b)
    \/ InsertEvent(b)
    \/ Commit(b)

InitRoutes ==
    /\ CLAUDE_API_KEY \in BOOLEAN
    /\ now = 0
    /\ session \in [Browsers -> SessionCookies]
    /\ req = [b \in Browsers |-> IdleReq("none", "", NoForm)]
    /\ db = EmptyDb
    /\ evalCur = NoCall
    /\ evalKept = NoCall

NextRoutes ==
    \/ Tick
    \/ \E b \in Browsers :
         \/ start_exam(b)
         \/ comprehensive_exam(b)
         \/ SubmitSteady(b)
         \/ Handler(b)
         \/ Abort(b)
         \/ student_results(b)
         \/ login(b)
         \/ logout(b)
         \/ dashboard(b)
         \/ view_result(b)
         \/ get_evaluation_details(b)

\* every route of the application, one browser
SpecRoutes == InitRoutes /\ [][NextRoutes]_vars

\* a single completed form
RaceForms == { [k \in FormKeys |-> AnsweredTrue] }

SubmitRace(b) == SubmitBeginFrom(b, RaceForms, TRUE)

NextLive ==
    \/ Tick
    \/ \E b \in Browsers :
         \/ start_exam(b)
         \/ SubmitRace(b)
         \/ Handler(b)
         \/ Abort(b)

\* a handler that has been entered keeps running: it waits only inside
\* requests.post, which returns or raises
SpecLive ==
    InitCommon /\ [][NextLive]_vars /\ \A b \in Browsers : WF_vars(Handler(b))

RaceBrowsers == {"b1", "b2"}

\* no analyzer key is configured: every question gets the default result
InitRace ==
    /\ CLAUDE_API_KEY = FALSE
    /\ now = 0
    /\ session = [b \in RaceBrowsers |-> NoSession]
    /\ req = [b \in RaceBrowsers |-> IdleReq("none", "", NoForm)]
    /\ db = EmptyDb
    /\ evalCur = NoCall
    /\ evalKept = NoCall

NextRace ==
    \/ Tick
    \/ \E b \in RaceBrowsers :
         \/ start_exam(b)
         \/ SubmitRace(b)
         \/ Handler(b)

\* two browsers whose requests are handled by concurrent threads
SpecRace == InitRace /\ [][NextRace]_vars

-----------------------------------------------------------------------------
(* Completeness of a persisted report *)

\* an evaluation row carries the nine sub-scores on the 1-5 scale, the three
\* scores and the three feedback texts
HasBreakdown(row) ==
    /\ DOMAIN row.criterios = Criterios
    /\ \A c \in Criterios : row.criterios[c] \in 1..5
    /\ row.truth_score \in {0, Pts(3, 2)}
    /\ row.argument_score \in Pts(3, 10)..Pts(3, 2)
    /\ row.final_score = row.truth_score + row.argument_score
    /\ \A f \in {row.feedback_general, row.feedback_fortalezas,
                 row.feedback_mejoras} : f.t = "str" /\ f.v # ""

\* C11: a results row is written (into the open transaction, and so into the
\* database) only when all ten questions have been evaluated, and every
\* persisted results row has exactly one question_evaluations row per
\* (case_id, question_index) of the catalog, each with nine sub-scores, the
\* truth, argument and final scores and the feedback texts.
C11_CompleteReport ==
    /\ \A b \in Browsers :
          req[b].txn.results # <<>> =>
              /\ req[b].pc \notin {"idle", "eval"}
              /\ KeysOf(req[b].all_question_evaluations) = CatalogOrder
    /\ \A n \in 1..Len(db.results) :
          LET rows == RowsOf("question_evaluations", db.results[n].id) IN
          /\ \A key \in FormKeys :
                Cardinality({ k \in 1..Len(rows) :
                    <<rows[k].case_id, rows[k].question_index>> = key }) = 1
          /\ Len(rows) = Cardinality(FormKeys)
          /\ \A k \in 1..Len(rows) : HasBreakdown(rows[k])

\* a persisted report with one question scored by the analyzer, a sub-score
\* of which was clamped to 5, and another question scored on the fallback
\* path after the analyzer timed out
C11_Witness ==
    /\ Len(db.results) = 1
    /\ \E j, k \in 1..Len(db.question_evaluations) :
          /\ db.question_evaluations[j].ai_model_used # "none"
          /\ db.question_evaluations[j].criterios["citas_precision"] = 5
          /\ db.question_evaluations[k].ai_model_used = "none"
          /\ db.question_evaluations[k].feedback_general =
                JStr("Timeout en evaluacion con IA. Intente nuevamente.")
          /\ db.question_evaluations[k].criterios = [c \in Criterios |-> 3]

-----------------------------------------------------------------------------
(* Progress of a submission *)

\* C12: the evaluator call started for a question eventually returns, and
\* every accepted submission eventually ends with the committed report or
\* with an error response.
C12_EventuallyAnswered ==
    \A b \in Browsers :
        /\ \A n \in 0..(NumQuestions - 1) :
              (req[b].pc = "eval" /\ Len(req[b].all_question_evaluations) = n)
                  ~> (req[b].pc # "eval"
                      \/ Len(req[b].all_question_evaluations) # n)
        /\ (req[b].pc # "idle")
              ~> (req[b].pc = "idle"
                  /\ req[b].response \in {"feedback_page", "error_500"})

\* a submission whose ten analyzer calls all timed out has been committed
C12_Witness ==
    \E b \in Browsers :
        /\ CLAUDE_API_KEY
        /\ req[b].response = "feedback_page"
        /\ Len(db.question_evaluations) = NumQuestions
        /\ \A k \in 1..Len(db.question_evaluations) :
              db.question_evaluations[k].feedback_general =
                  JStr("Timeout en evaluacion con IA. Intente nuevamente.")

-----------------------------------------------------------------------------
(* Without analyzer credentials *)

\* C13: when CLAUDE_API_KEY is unset no question of any submission issues
\* the HTTP call, and every evaluation is the default result for its truth
\* score.
C13_NoKeyNoCall ==
    ~CLAUDE_API_KEY =>
        /\ \A b \in Browsers :
              /\ req[b].posts = 0
              /\ \A k \in 1..Len(req[b].all_question_evaluations) :
                    LET e == req[b].all_question_evaluations[k]
                        dflt == default_result(e.truth_score)
                    IN  \A f \in DOMAIN dflt : e[f] = dflt[f]
        /\ \A k \in 1..Len(db.question_evaluations) :
              LET row == db.question_evaluations[k]
                  dflt == default_result(row.truth_score)
              IN  \A f \in DOMAIN dflt : row[f] = dflt[f]

\* without a key a submission has been evaluated and committed, and the
\* evaluator was called for each of its ten questions
C13_Witness ==
    \E b \in Browsers :
        /\ ~CLAUDE_API_KEY
        /\ req[b].response = "feedback_page"
        /\ Len(db.question_evaluations) = NumQuestions
        /\ \E j, k \in 1..Len(db.question_evaluations) :
              /\ db.question_evaluations[j].final_score = Pts(9, 4)
              /\ db.question_evaluations[k].final_score = Pts(3, 4)

-----------------------------------------------------------------------------
(* Immutability of a persisted report *)

\* the rows of a table are still there, unchanged and in place
RowsKept(before, after) ==
    /\ Len(after) >= Len(before)
    /\ SubSeq(after, 1, Len(before)) = before

\* C14: no step of any route changes or removes a committed results row or
\* question_evaluations row; steps only add rows or touch the access-token
\* counters.
C14_ReportNeverMutated ==
    [][ /\ RowsKept(db.results, db'.results)
        /\ RowsKept(db.question_evaluations, db'.question_evaluations)
        /\ RowsKept(db.events, db'.events)
        /\ Len(db'.student_access_tokens) >= Len(db.student_access_tokens)
        /\ \A k \in 1..Len(db.student_access_tokens) :
              /\ db'.student_access_tokens[k].result_id
                    = db.student_access_tokens[k].result_id
              /\ db'.student_access_tokens[k].token
                    = db.student_access_tokens[k].token ]_vars

\* the student has opened the committed report through the token link
C14_Witness ==
    \E b \in Browsers :
        /\ Len(db.results) = 1
        /\ Len(db.question_evaluations) = NumQuestions
        /\ req[b].response = "results_page"
        /\ db.student_access_tokens[1].access_count >= 1

-----------------------------------------------------------------------------
(* Sub-scores off the scale *)

\* a 200 response whose text parses to a JSON object with a criterios object
Parseable(o) ==
    /\ o.kind = "http" /\ o.status = 200
    /\ o.shape = "json_object" /\ o.criterios_is_dict

\* the sub-score is missing, not a number, or a number outside 1..5
OffScale(raw) ==
    \/ raw.t \in {"missing", "null", "str"}
    \/ raw.t \in {"int", "bool"} /\ (raw.v < 1 \/ raw.v > 5)
    \/ raw.t = "float" /\ (raw.v < 10 \/ raw.v > 50)

Unconvertible(raw) == raw.t \in {"nan", "inf"}

\* the stored sub-score: a number is truncated and moved to the nearest end
\* of the scale, anything else counts as 3
StoredSubScore(raw) ==
    CASE raw.t \in {"int", "bool"} ->
             (IF raw.v < 1 THEN 1 ELSE IF raw.v > 5 THEN 5 ELSE raw.v)
      [] raw.t = "float" ->
             (IF raw.v < 10 THEN 1 ELSE IF raw.v >= 50 THEN 5
              ELSE raw.v \div 10)
      [] OTHER -> 3

-----------------------------------------------------------------------------
(* Duration of a report *)

\* every stored or pending duration is end time minus the start time that
\* start_exam put into the session
DurationIsEndMinusStart ==
    /\ \A k \in 1..Len(db.results) :
          /\ db.results[k].start_time >= 0
          /\ db.results[k].duration_seconds
                = db.results[k].end_time - db.results[k].start_time
    /\ \A b \in Browsers :
          req[b].pc # "idle" =>
              /\ req[b].start_time = session[b].exam_start_time
              /\ req[b].start_time >= 0
              /\ req[b].duration_seconds = req[b].end_time - req[b].start_time

\* the last request of the browser was a submission under a session that
\* holds the student data but no start time
SubmittedWithoutStartTime(b) ==
    /\ req[b].pc = "idle"
    /\ req[b].cause = "session_incomplete"
    /\ session[b].exam_start_time = -1

-----------------------------------------------------------------------------
(* Paste and copy counters *)

\* sum of indicator number i (1 paste, 2 copy) over the justifications of
\* the evaluation rows
IndicatorSum(rows, i) ==
    SumSeq([k \in 1..Len(rows) |->
               detect_paste_copy_attempts(rows[k].user_answer_text)[i]])

\* C17: the paste and copy counters of every persisted report are the sums
\* of the indicators that detect_paste_copy_attempts yields for the
\* justifications of its answers.
C17_CountersAreSums ==
    \A n \in 1..Len(db.results) :
        LET rows == RowsOf("question_evaluations", db.results[n].id) IN
        /\ db.results[n].paste_attempts = IndicatorSum(rows, 1)
        /\ db.results[n].copy_attempts = IndicatorSum(rows, 2)

-----------------------------------------------------------------------------
(* One attempt per student *)

\* C18: under every interleaving of start_exam and submit_comprehensive
\* requests of two browsers the results table holds at most one row per
\* student_hash.
C18_OneRowPerHash ==
    \A j, k \in 1..Len(db.results) :
        db.results[j].student_hash = db.results[k].student_hash => j = k

-----------------------------------------------------------------------------
(* The argument component *)

SubScoreSum(d) ==
    SumSeq([k \in 1..Len(CriterioList) |-> d.criterios[CriterioList[k]]])

\* the success path: a parseable response that raises nothing
Succeeds(o) == Parseable(o) /\ ExcOf(o) = NoExc

\* C19: on the success path the argument component is the average of the
\* nine validated sub-scores, divided by 5 and multiplied by 1.5 points; it
\* lies between 0.3 and 1.5 points, does not decrease when the sum of the
\* sub-scores grows, and the final score is the truth component plus it.
C19_ArgumentFromAverage ==
    (evalCur # NoCall /\ CLAUDE_API_KEY /\ Succeeds(evalCur.outcome)) =>
        LET d == evalCur.result.data IN
        /\ d.ai_model_used # "none"
        /\ \A c \in Criterios : d.criterios[c] \in 1..5
        /\ d.argument_score * 5 * Len(CriterioList)
              = SubScoreSum(d) * Pts(3, 2)
        /\ Pts(3, 10) <= d.argument_score /\ d.argument_score <= Pts(3, 2)
        /\ d.final_score = d.truth_score + d.argument_score
        /\ evalCur.result.score = d.final_score
        /\ \A m \in CriteriosMaps :
              LET o2 == Parsed(TRUE, m, JStr("general"), JStr("fortalezas"),
                               JStr("mejoras"), TokInt(7))
                  d2 == evaluate_answer_with_ai_real(evalCur.user_bool,
                            evalCur.user_reason, evalCur.correct_bool,
                            CLAUDE_API_KEY, o2, evalCur.ms).data
              IN  (Succeeds(o2) /\ SubScoreSum(d2) >= SubScoreSum(d))
                      => d2.argument_score >= d.argument_score

\* a success-path call whose nine validated sub-scores are all 1: the
\* argument component is at the bottom of its range
C19_Witness ==
    /\ evalCur # NoCall /\ CLAUDE_API_KEY
    /\ Succeeds(evalCur.outcome)
    /\ SubScoreSum(evalCur.result.data) = Len(CriterioList)
    /\ evalCur.result.data.argument_score = Pts(3, 10)
    /\ evalCur.result.data.truth_score = Pts(3, 2)

-----------------------------------------------------------------------------
(* The argument component after an analyzer failure *)

\* len(user_reason.split()) of the strings of the model
WordCount(s) ==
    CASE s = "Sin justificacion proporcionada." -> 3
      [] s = "La licencia no cede derechos." -> 5
      [] s = PastedReason -> 7
      [] OTHER -> 0

\* discourse markers in the strings of the model
MarkerHits(s) == IF s = PastedReason THEN 2 ELSE 0

BothFailed ==
    /\ evalCur # NoCall /\ evalKept # NoCall
    /\ CLAUDE_API_KEY
    /\ IsFailure(evalCur.outcome) /\ IsFailure(evalKept.outcome)

\* C20 as claimed: after an analyzer failure the argument component comes
\* from the justification: of two failed calls, the one whose justification
\* has more words and more discourse markers gets the larger argument
\* component.
C20_ArgumentFromJustification ==
    (/\ BothFailed
     /\ WordCount(evalKept.user_reason) < WordCount(evalCur.user_reason)
     /\ MarkerHits(evalKept.user_reason) < MarkerHits(evalCur.user_reason))
        => evalKept.result.data.argument_score
               < evalCur.result.data.argument_score

\* C20 as amended: after an analyzer failure the argument component is the
\* constant 0.75 points, whatever the justification, and the final score is
\* the truth component plus 0.75.
C20_ConstantArgument ==
    BothFailed =>
        /\ evalCur.result.data.argument_score = Pts(3, 4)
        /\ evalKept.result.data.argument_score = Pts(3, 4)
        /\ evalCur.result.data.final_score
              = evalCur.result.data.truth_score + Pts(3, 4)
        /\ evalCur.result.score = evalCur.result.data.final_score

\* two failed calls, the placeholder justification and one with seven words
\* and two markers, with the same argument component
C20_Witness ==
    /\ BothFailed
    /\ evalKept.user_reason = "Sin justificacion proporcionada."
    /\ evalCur.user_reason = PastedReason
    /\ evalKept.outcome = NetError
    /\ evalCur.outcome = Timeout
    /\ evalKept.result.data.argument_score
          = evalCur.result.data.argument_score

-----------------------------------------------------------------------------
(* Short justifications *)

\* the empty justification, which the handler replaces by the placeholder
TooShort(user_reason) == user_reason = "Sin justificacion proporcionada."

-----------------------------------------------------------------------------
(* Penalties of a question *)

\* the justification raises a penalty signal of the detector
Signalled(user_reason) ==
    LET signals == detect_paste_copy_attempts(user_reason)
    IN  signals[1] + signals[2] > 0

\* the two calls differ in nothing but the justification
SameAnswer(c1, c2) ==
    /\ c1.user_bool = c2.user_bool
    /\ c1.correct_bool = c2.correct_bool
    /\ c1.outcome = c2.outcome

\* C22: the total of a question is reduced by the penalties of its
\* justification: an answer whose justification raises a penalty signal
\* scores strictly less than the same answer without the signal, unless its
\* total is already 0.
C22_SignalLowersScore ==
    (/\ evalCur # NoCall /\ evalKept # NoCall
     /\ SameAnswer(evalKept, evalCur)
     /\ ~Signalled(evalKept.user_reason)
     /\ Signalled(evalCur.user_reason))
        => \/ evalCur.result.score < evalKept.result.score
           \/ evalCur.result.score = 0

-----------------------------------------------------------------------------
(* The model recorded in a breakdown *)

\* the score comes from the fallback path: no key, or the call failed
FellBack(o) == ~CLAUDE_API_KEY \/ IsFailure(o)

\* C23: ai_model_used is 'none' exactly when the fallback path produced the
\* score, and then the argument component is 0.75 and the nine sub-scores
\* are 3; it is the analyzer's model name exactly when the score was
\* computed from the sub-scores the analyzer returned.
C23_ModelMarksThePath ==
    evalCur # NoCall =>
        LET d == evalCur.result.data
            o == evalCur.outcome
        IN  /\ d.ai_model_used \in {"none", "claude-3-sonnet-20240229"}
            /\ (d.ai_model_used = "none") <=> FellBack(o)
            /\ FellBack(o) =>
                  /\ d.argument_score = Pts(3, 4)
                  /\ \A c \in Criterios : d.criterios[c] = 3
            /\ ~FellBack(o) =>
                  /\ Parseable(o)
                  /\ \A c \in Criterios :
                        d.criterios[c] = StoredSubScore(o.criterios[c])
                  /\ d.argument_score * 5 * Len(CriterioList)
                        = SubScoreSum(d) * Pts(3, 2)
                  /\ d.argument_score # Pts(3, 4)

\* a 200 response with eight sub-scores of 5 and one NaN: marked 'none', and
\* none of the sub-scores validated before the NaN is kept
C23_Witness ==
    /\ evalCur # NoCall /\ CLAUDE_API_KEY
    /\ Parseable(evalCur.outcome)
    /\ evalCur.outcome.criterios["citas_precision"] = RawOther("nan")
    /\ evalCur.outcome.criterios["opinion_fundada"] = RawInt(5)
    /\ evalCur.result.data.ai_model_used = "none"
    /\ evalCur.result.data.argument_score = Pts(3, 4)
    /\ \A c \in Criterios : evalCur.result.data.criterios[c] = 3

-----------------------------------------------------------------------------
(* Range of the stored sub-scores *)

\* C24: on every path, whatever the analyzer returned (out of range,
\* fractional, boolean, non-numeric, missing), the breakdown holds exactly
\* the nine criteria and each sub-score is an integer between 1 and 5.
C24_SubScoresInScale ==
    evalCur # NoCall =>
        /\ DOMAIN evalCur.result.data.criterios = Criterios
        /\ Cardinality(Criterios) = 9
        /\ \A c \in Criterios : evalCur.result.data.criterios[c] \in 1..5

\* a fractional sub-score above the scale (5.9), stored as 5 on the AI path
C24_Witness ==
    /\ evalCur # NoCall /\ CLAUDE_API_KEY
    /\ evalCur.outcome.criterios["citas_precision"] = RawFloat(59)
    /\ evalCur.result.data.ai_model_used # "none"
    /\ evalCur.result.data.criterios["citas_precision"] = 5

-----------------------------------------------------------------------------
(* The deadline *)

\* C25: a request to start_exam, comprehensive_exam or submit_comprehensive
\* that starts after EXAM_DEADLINE is answered with the blocked page and
\* leaves the session and every table as they were; no submission that
\* arrived after the deadline is evaluated or stored.
C25_BlockedAfterDeadline ==
    /\ [](/\ \A k \in 1..Len(db.results) :
                db.results[k].end_time <= EXAM_DEADLINE
          /\ \A b \in Browsers :
                req[b].pc # "idle" => req[b].end_time <= EXAM_DEADLINE)
    /\ [][\A b \in Browsers :
            (/\ now > EXAM_DEADLINE
             /\ start_exam(b) \/ comprehensive_exam(b) \/ SubmitSteady(b))
                => /\ req'[b].pc = "idle"
                   /\ req'[b].response = "exam_blocked"
                   /\ req'[b].all_question_evaluations = <<>>
                   /\ session' = session
                   /\ db' = db]_vars

\* a student who registered in time is shown the blocked page after the
\* deadline and nothing was stored
C25_Witness ==
    \E b \in Browsers :
        /\ now > EXAM_DEADLINE
        /\ session[b].exam_start_time \in 0..EXAM_DEADLINE
        /\ session[b].student_hash # ""
        /\ req[b].response = "exam_blocked"
        /\ db = EmptyDb

-----------------------------------------------------------------------------
(* The session of a submission *)

\* the four entries that start_exam puts into the session
Registered(se) ==
    /\ se.student_name # "" /\ se.student_carne # ""
    /\ se.student_hash = get_student_hash(se.student_name, se.student_carne)
    /\ se.exam_start_time \in 0..MaxTime

\* C26: submit_comprehensive evaluates and writes only for a session that
\* holds the name, carne, hash and start time put there by start_exam;
\* with any other session it redirects to the registration form without
\* evaluating or writing. After the commit the session is cleared, and a
\* further submission from it is turned away before any evaluation.
C26_SubmissionNeedsSession ==
    /\ [](\A b \in Browsers :
            /\ req[b].pc # "idle" => Registered(session[b])
            /\ req[b].txn # EmptyDb => Registered(session[b])
            /\ req[b].response = "feedback_page" => session[b] = NoSession)
    /\ [][\A b \in Browsers :
            /\ (SubmitSteady(b) /\ ~Registered(session[b]))
                  => /\ req'[b].pc = "idle"
                     /\ req'[b].response \in {"redirect_index", "exam_blocked"}
                     /\ req'[b].all_question_evaluations = <<>>
                     /\ db' = db
            /\ db'.results # db.results
                  => /\ Registered(session[b])
                     /\ session'[b] = NoSession]_vars

\* after a committed report the browser, its session cleared, asked again
\* and was sent back to the registration form: nothing was evaluated
C26_Witness ==
    \E b \in Browsers :
        /\ Len(db.results) = 1
        /\ session[b] = NoSession
        /\ req[b].response = "redirect_index"
        /\ req[b].form = NoForm
        /\ req[b].all_question_evaluations = <<>>
        /\ db.events # <<>>

-----------------------------------------------------------------------------
(* Independence of the questions *)

\* the breakdown of question number k of the catalog, computed from the
\* answer to that question and the analyzer's outcome for it alone
OwnBreakdown(form, k, o) ==
    LET case_id == CatalogOrder[k][1]
        i == CatalogOrder[k][2]
        user_bool == FormBool(form[<<case_id, i>>])
        user_reason == FormReason(form[<<case_id, i>>])
        correct_bool == CaseOf(case_id).correct[i + 1]
    IN  evaluate_answer_with_ai_real(user_bool, user_reason, correct_bool,
                                     CLAUDE_API_KEY, o, 0).data

\* the fields of a breakdown that do not depend on the elapsed time
Breakdown(e) ==
    <<e.criterios, e.truth_score, e.argument_score, e.final_score,
      e.feedback_general, e.feedback_fortalezas, e.feedback_mejoras,
      e.ai_model_used, e.ai_tokens_used, e.ai_raw_response>>

\* a submission of a form of the routes whose questions may meet different
\* analyzer outcomes
SubmitMixed(b) == SubmitBeginFrom(b, RouteForms, FALSE)

NextMixed ==
    \/ Tick
    \/ \E b \in Browsers :
         \/ start_exam(b)
         \/ SubmitMixed(b)
         \/ Handler(b)
         \/ Abort(b)

SpecMixed == InitCommon /\ [][NextMixed]_vars

\* C27: the breakdown appended for a question is the one that its own answer
\* and its own analyzer outcome give, and appending it changes no breakdown
\* already held for another question of the submission nor any row stored
\* for another submission, whether the question failed or not.
C27_QuestionsIndependent ==
    [][\A b \in Browsers :
         LET r == req[b]
             n == Len(r.all_question_evaluations)
             after == req'[b].all_question_evaluations
         IN  /\ RowsKept(db.question_evaluations, db'.question_evaluations)
             /\ (r.pc # "idle" /\ req'[b].pc # "idle") =>
                   /\ Len(after) \in {n, n + 1}
                   /\ \A k \in 1..n : after[k] = r.all_question_evaluations[k]
                   /\ Len(after) = n + 1 =>
                         \E o \in SubmitOutcomes :
                            /\ Breakdown(after[n + 1])
                                  = Breakdown(OwnBreakdown(r.form, n + 1, o))
                            /\ req'[b].failed[n + 1]
                                  = (CLAUDE_API_KEY /\ IsFailure(o))]_vars

\* the first question timed out, the second was scored by the analyzer and
\* the third timed out again: each breakdown holds its own feedback
C27_Witness ==
    \E b \in Browsers :
        /\ CLAUDE_API_KEY
        /\ Len(req[b].all_question_evaluations) >= 3
        /\ req[b].failed[1] /\ ~req[b].failed[2] /\ req[b].failed[3]
        /\ req[b].all_question_evaluations[1].feedback_general
              = timeout_result(default_result(0), 0).feedback_general
        /\ req[b].all_question_evaluations[2].ai_model_used # "none"
        /\ req[b].all_question_evaluations[2].feedback_general = JStr("general")
        /\ req[b].all_question_evaluations[3].ai_model_used = "none"

====
